---- MODULE Spec2Model ----
(***************************************************************************)
(* SimpleAssociationTask (python/lsst/pipe/tasks/simpleAssociation.py):    *)
(* the greedy spatial association of DiaSources into DiaObjects.           *)
(*                                                                         *)
(* An iteration of the loop body of run() is one step for a source of the  *)
(* first ccdVisit and two steps otherwise: the findMatches call, then the  *)
(* branch that turns the DiaSource into a new DiaObject (addNewDiaObject)  *)
(* or attaches it to an existing one (updateCatalogs).                     *)
(*                                                                         *)
(* Numbers.  Coordinates are degrees on a grid of RaStep degrees; every    *)
(* source of the model lies on the equator (decl = 0).  Unit vectors and   *)
(* radians are fixed-point numbers scaled by Scale.  Python list indices   *)
(* are 0-based, the sequences here are 1-based: the object with Python     *)
(* index i is element i + 1.                                               *)
(***************************************************************************)
EXTENDS Integers, Sequences, FiniteSets, TLC

\* ------------------------------------------------------------------------
\* Bounds of the model
\* ------------------------------------------------------------------------
\* rows of the source table
MaxSources == 3
\* the sources lie at 0, 2 * RaStep, ..., MaxPos * 2 * RaStep degrees
MaxPos == 2

\* resolution of the coordinate grid (degrees) and of the fixed-point numbers
RaStep == 10
Scale == 10000

\* right ascensions of the input sources: multiples of 2 * RaStep
SrcRas == {2 * RaStep * k : k \in 0..MaxPos}
\* representable right ascensions (the input ones and the midpoints)
GridRas == {RaStep * k : k \in 0..(2 * MaxPos)}
Decls == {0}
\* declinations of the tables with a malformed row (100 is no latitude)
MalformedDecls == {0, 100}

\* configurations and id seeds the model runs under
Tolerances == {36000, 72000}
WideTolerances == {36000, 108000}
\* a tolerance that is not positive, next to one that is
DegenerateTolerances == {0, 36000}
Nsides == {3}
TractPatchIds == {1}
SkymapBitsSet == {60}
\* (tractPatchId, skymapBits) pairs of the calls for different sky cells
CellPairs == {<<1, 60>>, <<2, 60>>, <<2, 61>>}

\* the value Python's None is modelled by (arrays returned by findMatches
\* are never empty)
None == <<>>
\* the value of the diaObjectId column before the call
NoId == 0

VARIABLES
    diaSources,         \* the source table (a sequence of rows)
    config,             \* self.config: tolerance (arcsec) and nside
    tractPatchId,       \* argument of run
    skymapBits,         \* argument of run
    diaObjectCat,       \* list of DiaObject dicts
    diaObjectCoords,    \* list of lists of SpherePoints
    healPixIndices,     \* list of cell ids, one per DiaObject
    idCat,              \* number of records idCat.addNew() has issued
    usedMatchIndicies,  \* DiaObjects attached to in the current ccdVisit
    firstVisit,         \* value of len(diaObjectCat) == 0 for this ccdVisit
    dists,              \* matchResult.dists of the last findMatches call
    matches,            \* matchResult.matches of the last findMatches call
    matchIndex,         \* matches[argmin(dists)] of the last iteration
    pos,                \* number of source rows processed so far
    rowOrder,           \* the rows in the order the loops of run visit them
    firstRun,           \* the Struct an earlier call of run on this table
                        \* returned, None when there was none
    pc                  \* "loop": at the head of the loop over the sources,
                        \* "match": after findMatches, "done": returned,
                        \* "raised": left by an exception

vars == <<diaSources, config, tractPatchId, skymapBits, diaObjectCat,
          diaObjectCoords, healPixIndices, idCat, usedMatchIndicies,
          firstVisit, dists, matches, matchIndex, pos, rowOrder,
          firstRun, pc>>

\* ------------------------------------------------------------------------
\* Fixed-point trigonometry
\* ------------------------------------------------------------------------
\* Scale * cos and Scale * sin of 0, 10, ..., 120 degrees
CosTable == <<10000, 9848, 9397, 8660, 7660, 6428, 5000, 3420, 1736, 0,
              -1736, -3420, -5000>>
SinTable == <<0, 1736, 3420, 5000, 6428, 7660, 8660, 9397, 9848, 10000,
              9848, 9397, 8660>>

CosDeg(d) == CosTable[(d \div RaStep) + 1]
SinDeg(d) == SinTable[(d \div RaStep) + 1]

\* np.deg2rad on a whole number of degrees, in units of 1 / Scale radian
deg2rad(deg) == (deg * 17453) \div 100

Abs(x) == IF x < 0 THEN -x ELSE x

Min(S) == CHOOSE x \in S : \A y \in S : x <= y

\* the members of a set of integers in ascending order
RECURSIVE Ascending(_)
Ascending(S) ==
    IF S = {} THEN <<>>
    ELSE LET m == Min(S) IN <<m>> \o Ascending(S \ {m})

\* floor of the square root (np.sqrt at the resolution of the fixed point),
\* by Newton's iteration from above
RECURSIVE SqrtIter(_, _)
SqrtIter(n, x) ==
    LET y == (x + n \div x) \div 2
    IN  IF y >= x THEN x ELSE SqrtIter(n, y)
sqrt(n) == IF n = 0 THEN 0 ELSE SqrtIter(n, 2 * Scale)

\* ------------------------------------------------------------------------
\* associationUtils: eq2xyz, toIndex, query_disc
\* ------------------------------------------------------------------------
\* unit vector of a sky coordinate
eq2xyz(ra, dec) ==
    << (CosDeg(dec) * CosDeg(ra)) \div Scale,
       (CosDeg(dec) * SinDeg(ra)) \div Scale,
       SinDeg(dec) >>

\* width in degrees of one cell of the equatorial ring (4 * nside cells)
PixWidth(nside) == 360 \div (4 * nside)

\* cell id of a coordinate
toIndex(nside, ra, dec) == ra \div PixWidth(nside)

\* cells that intersect the closed disc of radius rad (fixed-point radians)
\* around (ra, dec): the nearest point of the cell is within the radius
query_disc(nside, ra, dec, rad) ==
    LET here == toIndex(nside, ra, dec)
        \* no cell further than this many cells away can reach the disc
        span == (rad \div deg2rad(PixWidth(nside))) + 1
    IN  { c \in (here - span)..(here + span) :
            LET lo == c * PixWidth(nside)
                hi == (c + 1) * PixWidth(nside)
                gap == IF ra < lo THEN lo - ra
                       ELSE IF ra > hi THEN ra - hi
                       ELSE 0
            IN  deg2rad(gap) <= rad }

\* ------------------------------------------------------------------------
\* lsst.geom: SpherePoint, averageSpherePoint
\* ------------------------------------------------------------------------
\* geom.SpherePoint(ra, decl, geom.degrees) raises unless the latitude is
\* within [-90, 90] degrees
ValidCoord(src) == src.decl \in -90..90

\* geom.SpherePoint(ra, decl, geom.degrees): ra wrapped into [0, 360)
SpherePoint(ra, decl) == [ra |-> ra % 360, decl |-> decl]

getVector(p) == eq2xyz(p.ra, p.decl)

Dot(u, v) == u[1] * v[1] + u[2] * v[2] + u[3] * v[3]

RECURSIVE VectorSum(_)
VectorSum(coords) ==
    IF coords = <<>> THEN <<0, 0, 0>>
    ELSE LET v == getVector(Head(coords))
             r == VectorSum(Tail(coords))
         IN  <<v[1] + r[1], v[2] + r[2], v[3] + r[3]>>

\* the representable coordinates with their unit vectors, by ascending ra
RECURSIVE PointsOf(_, _)
PointsOf(ras, decls) ==
    IF ras = <<>> THEN <<>>
    ELSE [k \in 1..Len(decls) |->
             [point |-> SpherePoint(Head(ras), decls[k]),
              vector |-> eq2xyz(Head(ras), decls[k])]]
         \o PointsOf(Tail(ras), decls)
GridPoints == PointsOf(Ascending(GridRas), Ascending(Decls))

\* the first of the GridPoints from k on nearest to the direction of v, when
\* the nearest before k is the one at best
RECURSIVE NearestPoint(_, _, _)
NearestPoint(v, k, best) ==
    IF k > Len(GridPoints) THEN best
    ELSE IF Dot(v, GridPoints[k].vector) > Dot(v, GridPoints[best].vector)
         THEN NearestPoint(v, k + 1, k)
         ELSE NearestPoint(v, k + 1, best)

\* SpherePoint(Vector3d): the representable coordinate whose direction is
\* nearest to that of v (the lowest one when two are equally near)
FromVector(v) == GridPoints[NearestPoint(v, 2, 1)].point

\* mutant: the average is taken over the last two coordinates of the list
averageSpherePoint_LastTwo(coords) ==
    FromVector(VectorSum(SubSeq(coords,
                                IF Len(coords) > 2 THEN Len(coords) - 1
                                ELSE 1,
                                Len(coords))))

\* geom.averageSpherePoint: normalised sum of the unit vectors
averageSpherePoint(coords) == FromVector(VectorSum(coords))

\* ------------------------------------------------------------------------
\* SimpleAssociationTask
\* ------------------------------------------------------------------------
\* createDiaObject: the dict of a new DiaObject
createDiaObject(objId, ra, decl) ==
    [diaObjectId |-> objId, ra |-> ra, decl |-> decl, nDiaSources |-> 1,
     pmParallaxNdata |-> 0, nearbyObj1 |-> 0, nearbyObj2 |-> 0,
     nearbyObj3 |-> 0, flags |-> 0,
     uPSFluxNdata |-> 0, gPSFluxNdata |-> 0, rPSFluxNdata |-> 0,
     iPSFluxNdata |-> 0, zPSFluxNdata |-> 0, yPSFluxNdata |-> 0]

\* 2 ** n
RECURSIVE Pow2(_)
Pow2(n) == IF n = 0 THEN 1 ELSE 2 * Pow2(n - 1)

\* mutant: the id factory outlives the call, a second call goes on counting
NewId_SharedFactory(n) ==
    tractPatchId * Pow2(64 - skymapBits) + n
        + (IF firstRun = None THEN 0 ELSE Len(firstRun.diaObjects))

\* mutant: every DiaObject gets its id from a factory of its own, which
\* issues its first id
NewId_FreshFactory(n) == tractPatchId * Pow2(64 - skymapBits) + 1

\* idCat.addNew().get("id") with the factory of
\* IdFactory.makeSource(tractPatchId, 64 - skymapBits): the id of the n-th
\* record is the tractPatchId in the upper bits and n in the lower
\* 64 - skymapBits bits
NewId(n) == tractPatchId * Pow2(64 - skymapBits) + n

\* mutant: the row is selected by its ccdVisit alone
SetDiaObjectId_AnyRowOfVisit(ccdVisit, diaSourceId, objId) ==
    [i \in DOMAIN diaSources |->
        IF diaSources[i].ccdVisitId = ccdVisit
        THEN [diaSources[i] EXCEPT !.diaObjectId = objId]
        ELSE diaSources[i]]

\* mutant: the assignment also clears the diaSourceId of the row
SetDiaObjectId_KeyLost(ccdVisit, diaSourceId, objId) ==
    [i \in DOMAIN diaSources |->
        IF /\ diaSources[i].ccdVisitId = ccdVisit
           /\ diaSources[i].diaSourceId = diaSourceId
        THEN [diaSources[i] EXCEPT !.diaObjectId = objId, !.diaSourceId = 0]
        ELSE diaSources[i]]

\* diaSources.loc[(ccdVisit, diaSourceId), "diaObjectId"] = objId
SetDiaObjectId(ccdVisit, diaSourceId, objId) ==
    [i \in DOMAIN diaSources |->
        IF /\ diaSources[i].ccdVisitId = ccdVisit
           /\ diaSources[i].diaSourceId = diaSourceId
        THEN [diaSources[i] EXCEPT !.diaObjectId = objId]
        ELSE diaSources[i]]

\* the rows of a set by ascending diaSourceId
RECURSIVE SortById(_)
SortById(rows) ==
    IF rows = {} THEN <<>>
    ELSE LET i == CHOOSE x \in rows :
                      \A y \in rows :
                          diaSources[x].diaSourceId <= diaSources[y].diaSourceId
         IN  <<i>> \o SortById(rows \ {i})

\* mutant: the rows of one ccdVisit by ascending diaSourceId
RowsOfVisit_ById(ccdVisit) ==
    SortById({i \in 1..Len(diaSources) :
                 diaSources[i].ccdVisitId = ccdVisit})

\* mutant: iterating the rows of a ccdVisit yields its first row every time
RowsOfVisit_FirstAgain(ccdVisit) ==
    LET rows == Ascending({i \in 1..Len(diaSources) :
                              diaSources[i].ccdVisitId = ccdVisit})
    IN  [k \in 1..Len(rows) |-> rows[1]]

\* rows of one ccdVisit, in the order they have in the table
\* (diaSources.loc[ccdVisit])
RowsOfVisit(ccdVisit) ==
    Ascending({i \in 1..Len(diaSources) :
                  diaSources[i].ccdVisitId = ccdVisit})

\* the order the two loops of run visit the rows in: the ccdVisits of
\* diaSources.index.levels[0] ascending, the rows of each in table order
RECURSIVE IterOrder(_)
IterOrder(levels) ==
    IF levels = {} THEN <<>>
    ELSE LET ccdVisit == Min(levels)
         IN  RowsOfVisit(ccdVisit) \o IterOrder(levels \ {ccdVisit})
Order == IterOrder({diaSources[i].ccdVisitId : i \in DOMAIN diaSources})

\* the row of the current iteration (ccdVisit and diaSourceId are its key)
diaSrc == diaSources[rowOrder[pos + 1]]

\* the current iteration is the first of its ccdVisit
NewVisit(ccdVisit) ==
    \/ pos = 0
    \/ diaSources[rowOrder[pos]].ccdVisitId # ccdVisit

\* mutant: no ccdVisit is taken as the first
InFirstVisit_Never(ccdVisit) == FALSE

\* the test len(diaObjectCat) == 0, made once per ccdVisit
InFirstVisit(ccdVisit) ==
    IF NewVisit(ccdVisit) THEN Len(diaObjectCat) = 0 ELSE firstVisit

\* mutant: usedMatchIndicies is not emptied at the start of a ccdVisit
UsedNow_NeverCleared(ccdVisit) == usedMatchIndicies

\* usedMatchIndicies at the start of the iteration: emptied at the start of
\* every ccdVisit that is matched
UsedNow(ccdVisit) ==
    IF NewVisit(ccdVisit) THEN <<>> ELSE usedMatchIndicies

\* mutant: of the DiaObjects in the cells of the disc only those in cells up
\* to the cell of the source are taken
findMatches_LowerCells(src_ra, src_dec, tol, hpIndices, diaObjs) ==
    LET match_indices == query_disc(config.nside, src_ra, src_dec,
                                    deg2rad(tol \div 3600))
        \* np.argwhere(np.isin(hpIndices, match_indices)).flatten()
        matchIndices ==
            Ascending({i \in 1..Len(hpIndices) :
                          /\ hpIndices[i] \in match_indices
                          /\ hpIndices[i] <=
                                 toIndex(config.nside, src_ra, src_dec)})
        dist(match) ==
            LET a == eq2xyz(src_ra, src_dec)
                b == eq2xyz(diaObjs[match].ra, diaObjs[match].decl)
            IN  sqrt((a[1] - b[1]) * (a[1] - b[1])
                     + (a[2] - b[2]) * (a[2] - b[2])
                     + (a[3] - b[3]) * (a[3] - b[3]))
    IN  IF Len(matchIndices) < 1
        THEN [dists |-> None, matches |-> None]
        ELSE [dists |-> [k \in 1..Len(matchIndices) |->
                            dist(matchIndices[k])],
              matches |-> matchIndices]

\* findMatches
findMatches(src_ra, src_dec, tol, hpIndices, diaObjs) ==
    LET match_indices == query_disc(config.nside, src_ra, src_dec,
                                    deg2rad(tol \div 3600))
        \* np.argwhere(np.isin(hpIndices, match_indices)).flatten()
        matchIndices == Ascending({i \in 1..Len(hpIndices) :
                                      hpIndices[i] \in match_indices})
        dist(match) ==
            LET a == eq2xyz(src_ra, src_dec)
                b == eq2xyz(diaObjs[match].ra, diaObjs[match].decl)
            IN  sqrt((a[1] - b[1]) * (a[1] - b[1])
                     + (a[2] - b[2]) * (a[2] - b[2])
                     + (a[3] - b[3]) * (a[3] - b[3]))
    IN  IF Len(matchIndices) < 1
        THEN [dists |-> None, matches |-> None]
        ELSE [dists |-> [k \in 1..Len(matchIndices) |->
                            dist(matchIndices[k])],
              matches |-> matchIndices]

\* np.min and np.argmin (the first position of the minimum)
npMin(a) == Min({a[k] : k \in DOMAIN a})
\* mutant: the last position of the minimum
npArgmin_Last(a) ==
    LET m == Min({a[k] : k \in DOMAIN a})
    IN  CHOOSE k \in DOMAIN a :
            a[k] = m /\ \A j \in DOMAIN a : a[j] = m => j <= k

npArgmin(a) == LET m == npMin(a) IN Min({k \in DOMAIN a : a[k] = m})

\* np.min(dists) < np.deg2rad(self.config.tolerance/3600)
WithinTolerance(d) == npMin(d) < deg2rad(config.tolerance \div 3600)

\* mutant: no DiaObject counts as used
NotUsed_Always(index, used) == TRUE

\* np.isin([matchIndex], usedMatchIndicies).sum() < 1
NotUsed(index, used) == \A k \in DOMAIN used : used[k] # index

\* mutant: the diaObjectId of the new DiaObject is not written to the source
addNewDiaObject_NoIdWritten(src, ccdVisit, diaSourceId) ==
    LET diaObjId == NewId(idCat + 1)
    IN  /\ healPixIndices' =
              Append(healPixIndices, toIndex(config.nside, src.ra, src.decl))
        /\ diaObjectCoords' =
              Append(diaObjectCoords, <<SpherePoint(src.ra, src.decl)>>)
        /\ idCat' = idCat + 1
        /\ diaObjectCat' =
              Append(diaObjectCat,
                     createDiaObject(diaObjId, src.ra, src.decl))
        /\ diaSources' = diaSources

\* mutant: the new DiaObject is put at the head of the lists, every DiaObject
\* there is moves up by one index
addNewDiaObject_AtHead(src, ccdVisit, diaSourceId) ==
    LET diaObjId == NewId(idCat + 1)
    IN  /\ healPixIndices' =
              <<toIndex(config.nside, src.ra, src.decl)>> \o healPixIndices
        /\ diaObjectCoords' =
              <<<<SpherePoint(src.ra, src.decl)>>>> \o diaObjectCoords
        /\ idCat' = idCat + 1
        /\ diaObjectCat' =
              <<createDiaObject(diaObjId, src.ra, src.decl)>> \o diaObjectCat
        /\ diaSources' = SetDiaObjectId(ccdVisit, diaSourceId, diaObjId)

\* addNewDiaObject
addNewDiaObject(src, ccdVisit, diaSourceId) ==
    LET diaObjId == NewId(idCat + 1)
    IN  /\ ValidCoord(src)
        /\ healPixIndices' =
              Append(healPixIndices, toIndex(config.nside, src.ra, src.decl))
        /\ diaObjectCoords' =
              Append(diaObjectCoords, <<SpherePoint(src.ra, src.decl)>>)
        /\ idCat' = idCat + 1
        /\ diaObjectCat' =
              Append(diaObjectCat,
                     createDiaObject(diaObjId, src.ra, src.decl))
        /\ diaSources' = SetDiaObjectId(ccdVisit, diaSourceId, diaObjId)

\* mutant: nDiaSources is not incremented
updateCatalogs_NoCount(index, src, ccdVisit, diaSourceId) ==
    LET coords == Append(diaObjectCoords[index],
                         SpherePoint(src.ra, src.decl))
        aveCoord == averageSpherePoint(coords)
    IN  /\ diaObjectCoords' = [diaObjectCoords EXCEPT ![index] = coords]
        /\ diaObjectCat' =
              [diaObjectCat EXCEPT ![index] =
                  [@ EXCEPT !.ra = aveCoord.ra, !.decl = aveCoord.decl]]
        /\ healPixIndices' =
              [healPixIndices EXCEPT ![index] =
                  toIndex(config.nside, aveCoord.ra, aveCoord.decl)]
        /\ diaSources' =
              SetDiaObjectId(ccdVisit, diaSourceId,
                             diaObjectCat[index].diaObjectId)
        /\ idCat' = idCat

\* mutant: the new coordinate is averaged with the current mean, not with
\* the coordinates of all the sources of the DiaObject
updateCatalogs_MeanOfMean(index, src, ccdVisit, diaSourceId) ==
    LET coords == Append(diaObjectCoords[index],
                         SpherePoint(src.ra, src.decl))
        aveCoord == averageSpherePoint(
                        <<SpherePoint(diaObjectCat[index].ra,
                                      diaObjectCat[index].decl),
                          SpherePoint(src.ra, src.decl)>>)
        nSources == diaObjectCat[index].nDiaSources
    IN  /\ diaObjectCoords' = [diaObjectCoords EXCEPT ![index] = coords]
        /\ diaObjectCat' =
              [diaObjectCat EXCEPT ![index] =
                  [@ EXCEPT !.ra = aveCoord.ra,
                            !.decl = aveCoord.decl,
                            !.nDiaSources = nSources + 1]]
        /\ healPixIndices' =
              [healPixIndices EXCEPT ![index] =
                  toIndex(config.nside, aveCoord.ra, aveCoord.decl)]
        /\ diaSources' =
              SetDiaObjectId(ccdVisit, diaSourceId,
                             diaObjectCat[index].diaObjectId)
        /\ idCat' = idCat

\* mutant: the cell id of the DiaObject is not recomputed
updateCatalogs_StaleCell(index, src, ccdVisit, diaSourceId) ==
    LET coords == Append(diaObjectCoords[index],
                         SpherePoint(src.ra, src.decl))
        aveCoord == averageSpherePoint(coords)
        nSources == diaObjectCat[index].nDiaSources
    IN  /\ diaObjectCoords' = [diaObjectCoords EXCEPT ![index] = coords]
        /\ diaObjectCat' =
              [diaObjectCat EXCEPT ![index] =
                  [@ EXCEPT !.ra = aveCoord.ra,
                            !.decl = aveCoord.decl,
                            !.nDiaSources = nSources + 1]]
        /\ healPixIndices' = healPixIndices
        /\ diaSources' =
              SetDiaObjectId(ccdVisit, diaSourceId,
                             diaObjectCat[index].diaObjectId)
        /\ idCat' = idCat

\* mutant: attaching a source counts it in rPSFluxNdata as well
updateCatalogs_CountsBand(index, src, ccdVisit, diaSourceId) ==
    LET coords == Append(diaObjectCoords[index],
                         SpherePoint(src.ra, src.decl))
        aveCoord == averageSpherePoint(coords)
        nSources == diaObjectCat[index].nDiaSources
    IN  /\ ValidCoord(src)
        /\ diaObjectCoords' = [diaObjectCoords EXCEPT ![index] = coords]
        /\ diaObjectCat' =
              [diaObjectCat EXCEPT ![index] =
                  [@ EXCEPT !.ra = aveCoord.ra,
                            !.decl = aveCoord.decl,
                            !.nDiaSources = nSources + 1,
                            !.rPSFluxNdata = nSources + 1]]
        /\ healPixIndices' =
              [healPixIndices EXCEPT ![index] =
                  toIndex(config.nside, aveCoord.ra, aveCoord.decl)]
        /\ diaSources' =
              SetDiaObjectId(ccdVisit, diaSourceId,
                             diaObjectCat[index].diaObjectId)
        /\ idCat' = idCat

\* mutant: the cell id of the new mean is written at the last DiaObject
updateCatalogs_CellOfLast(index, src, ccdVisit, diaSourceId) ==
    LET coords == Append(diaObjectCoords[index],
                         SpherePoint(src.ra, src.decl))
        aveCoord == averageSpherePoint(coords)
        nSources == diaObjectCat[index].nDiaSources
    IN  /\ ValidCoord(src)
        /\ diaObjectCoords' = [diaObjectCoords EXCEPT ![index] = coords]
        /\ diaObjectCat' =
              [diaObjectCat EXCEPT ![index] =
                  [@ EXCEPT !.ra = aveCoord.ra,
                            !.decl = aveCoord.decl,
                            !.nDiaSources = nSources + 1]]
        /\ healPixIndices' =
              [healPixIndices EXCEPT ![Len(healPixIndices)] =
                  toIndex(config.nside, aveCoord.ra, aveCoord.decl)]
        /\ diaSources' =
              SetDiaObjectId(ccdVisit, diaSourceId,
                             diaObjectCat[index].diaObjectId)
        /\ idCat' = idCat

\* updateCatalogs
updateCatalogs(index, src, ccdVisit, diaSourceId) ==
    LET coords == Append(diaObjectCoords[index],
                         SpherePoint(src.ra, src.decl))
        aveCoord == averageSpherePoint(coords)
        nSources == diaObjectCat[index].nDiaSources
    IN  /\ ValidCoord(src)
        /\ diaObjectCoords' = [diaObjectCoords EXCEPT ![index] = coords]
        /\ diaObjectCat' =
              [diaObjectCat EXCEPT ![index] =
                  [@ EXCEPT !.ra = aveCoord.ra,
                            !.decl = aveCoord.decl,
                            !.nDiaSources = nSources + 1]]
        /\ healPixIndices' =
              [healPixIndices EXCEPT ![index] =
                  toIndex(config.nside, aveCoord.ra, aveCoord.decl)]
        /\ diaSources' =
              SetDiaObjectId(ccdVisit, diaSourceId,
                             diaObjectCat[index].diaObjectId)
        /\ idCat' = idCat

\* ------------------------------------------------------------------------
\* Inputs
\* ------------------------------------------------------------------------
\* diaSourceIds of a table of n rows: ascending or descending with the row
DiaSourceIds(n) == {[i \in 1..n |-> i], [i \in 1..n |-> n + 1 - i]}

\* ccdVisitIds of a table of n rows.  Only the order of the ccdVisitIds
\* matters to run, so the ids in use are 1..m for some m
CcdVisitIds(n) ==
    { v \in [1..n -> 1..n] :
        {v[i] : i \in 1..n} = 1..Cardinality({v[i] : i \in 1..n}) }

\* a source table of n rows: the key (ccdVisitId, diaSourceId) is unique,
\* the diaObjectId column is not filled yet
SourceTable(n, v, ids, r, d) ==
    [i \in 1..n |->
        [ccdVisitId |-> v[i], diaSourceId |-> ids[i],
         ra |-> r[i], decl |-> d[i], diaObjectId |-> NoId]]

\* ------------------------------------------------------------------------
\* run
\* ------------------------------------------------------------------------
\* the state at the head of the loop over the ccdVisits (lines 94-110) of a
\* call run(table, tractPatchId, skymapBits) of a task configured with cfg
StartAt(table, cfg, tract, bits) ==
    /\ diaSources = table
    /\ rowOrder = Order
    /\ config = cfg
    /\ tractPatchId = tract
    /\ skymapBits = bits
    /\ diaObjectCat = <<>>
    /\ diaObjectCoords = <<>>
    /\ healPixIndices = <<>>
    /\ idCat = 0
    /\ usedMatchIndicies = <<>>
    /\ firstVisit = TRUE
    /\ dists = None
    /\ matches = None
    /\ matchIndex = 0
    /\ pos = 0
    /\ firstRun = None
    /\ pc = "loop"

Start(table, cfg) ==
    \E tract \in TractPatchIds, bits \in SkymapBitsSet :
        StartAt(table, cfg, tract, bits)

\* every table of at most MaxSources rows
Init ==
    \E n \in 0..MaxSources :
        \E v \in CcdVisitIds(n), ids \in DiaSourceIds(n),
           r \in [1..n -> SrcRas], d \in [1..n -> Decls],
           cfg \in [tolerance : Tolerances, nside : Nsides] :
            Start(SourceTable(n, v, ids, r, d), cfg)

\* the tables of MaxSources + 1 rows in two ccdVisits, the rows of the first
\* ccdVisit before those of the second
InitTwoVisits ==
    \E first \in 1..MaxSources :
        \E r \in [1..(MaxSources + 1) -> SrcRas],
           d \in [1..(MaxSources + 1) -> Decls],
           cfg \in [tolerance : WideTolerances, nside : Nsides] :
            Start(SourceTable(MaxSources + 1,
                              [i \in 1..(MaxSources + 1) |->
                                  IF i <= first THEN 1 ELSE 2],
                              [i \in 1..(MaxSources + 1) |-> i], r, d),
                  cfg)

\* lines 114-124: a source of the ccdVisit found with no DiaObject yet
FirstVisitSource ==
    /\ pc = "loop"
    /\ pos < Len(diaSources)
    /\ LET src == diaSrc
       IN  /\ InFirstVisit(src.ccdVisitId)
           /\ addNewDiaObject(src, src.ccdVisitId, src.diaSourceId)
    /\ firstVisit' = TRUE
    /\ pos' = pos + 1
    /\ UNCHANGED <<firstRun, rowOrder, config, tractPatchId, skymapBits,
                   usedMatchIndicies, dists, matches, matchIndex, pc>>

\* lines 125-136: the next source of a ccdVisit that is matched (with
\* usedMatchIndicies emptied before the first one) and its findMatches call
FindMatches ==
    /\ pc = "loop"
    /\ pos < Len(diaSources)
    /\ LET src == diaSrc
           matchResult == findMatches(src.ra, src.decl, 2 * config.tolerance,
                                      healPixIndices, diaObjectCat)
       IN  /\ ~InFirstVisit(src.ccdVisitId)
           /\ usedMatchIndicies' = UsedNow(src.ccdVisitId)
           /\ dists' = matchResult.dists
           /\ matches' = matchResult.matches
    /\ firstVisit' = FALSE
    /\ pc' = "match"
    /\ UNCHANGED <<firstRun, rowOrder, diaSources, config, tractPatchId,
                   skymapBits, diaObjectCat, diaObjectCoords, healPixIndices,
                   idCat, matchIndex, pos>>

\* mutant: a source without a candidate is passed over, no DiaObject is
\* created for it
NoCandidate_Skip ==
    /\ pc = "match"
    /\ dists = None
    /\ pos' = pos + 1
    /\ pc' = "loop"
    /\ UNCHANGED <<firstRun, rowOrder, diaSources, config, tractPatchId,
                   skymapBits, diaObjectCat, diaObjectCoords, healPixIndices,
                   idCat, usedMatchIndicies, firstVisit, dists, matches,
                   matchIndex>>

\* lines 138-147: findMatches found no DiaObject in the cells of the disc
NoCandidate ==
    /\ pc = "match"
    /\ dists = None
    /\ LET src == diaSrc
       IN  addNewDiaObject(src, src.ccdVisitId, src.diaSourceId)
    /\ pos' = pos + 1
    /\ pc' = "loop"
    /\ UNCHANGED <<firstRun, rowOrder, config, tractPatchId, skymapBits,
                   usedMatchIndicies, firstVisit, dists, matches, matchIndex>>

\* mutant: the DiaObject a source is attached to is not put in
\* usedMatchIndicies
Attach_NotMarked ==
    /\ pc = "match"
    /\ dists # None
    /\ WithinTolerance(dists)
    /\ LET src == diaSrc
           matchDistArg == npArgmin(dists)
       IN  /\ matchIndex' = matches[matchDistArg]
           /\ NotUsed(matchIndex', usedMatchIndicies)
           /\ updateCatalogs(matchIndex', src, src.ccdVisitId,
                             src.diaSourceId)
    /\ pos' = pos + 1
    /\ pc' = "loop"
    /\ UNCHANGED <<firstRun, rowOrder, config, tractPatchId, skymapBits,
                   usedMatchIndicies, firstVisit, dists, matches>>

\* lines 149-162: the nearest DiaObject is within the tolerance and unused
Attach ==
    /\ pc = "match"
    /\ dists # None
    /\ WithinTolerance(dists)
    /\ LET src == diaSrc
           matchDistArg == npArgmin(dists)
       IN  /\ matchIndex' = matches[matchDistArg]
           /\ NotUsed(matchIndex', usedMatchIndicies)
           /\ updateCatalogs(matchIndex', src, src.ccdVisitId,
                             src.diaSourceId)
           /\ usedMatchIndicies' = Append(usedMatchIndicies, matchIndex')
    /\ pos' = pos + 1
    /\ pc' = "loop"
    /\ UNCHANGED <<firstRun, rowOrder, config, tractPatchId, skymapBits,
                   firstVisit, dists, matches>>

\* lines 163-173: the nearest DiaObject is within the tolerance but used
MatchUsed ==
    /\ pc = "match"
    /\ dists # None
    /\ WithinTolerance(dists)
    /\ LET src == diaSrc
           matchDistArg == npArgmin(dists)
       IN  /\ matchIndex' = matches[matchDistArg]
           /\ ~NotUsed(matchIndex', usedMatchIndicies)
           /\ addNewDiaObject(src, src.ccdVisitId, src.diaSourceId)
    /\ pos' = pos + 1
    /\ pc' = "loop"
    /\ UNCHANGED <<firstRun, rowOrder, config, tractPatchId, skymapBits,
                   usedMatchIndicies, firstVisit, dists, matches>>

\* lines 174-184: no DiaObject within the tolerance
OutOfTolerance ==
    /\ pc = "match"
    /\ dists # None
    /\ ~WithinTolerance(dists)
    /\ LET src == diaSrc
       IN  addNewDiaObject(src, src.ccdVisitId, src.diaSourceId)
    /\ pos' = pos + 1
    /\ pc' = "loop"
    /\ UNCHANGED <<firstRun, rowOrder, config, tractPatchId, skymapBits,
                   usedMatchIndicies, firstVisit, dists, matches, matchIndex>>

\* mutant: the return fails on a table without rows
Return_NotEmpty ==
    /\ pc = "loop"
    /\ pos = Len(diaSources)
    /\ Len(diaSources) > 0
    /\ pc' = "done"
    /\ UNCHANGED <<firstRun, rowOrder, diaSources, config, tractPatchId,
                   skymapBits, diaObjectCat, diaObjectCoords, healPixIndices,
                   idCat, usedMatchIndicies, firstVisit, dists, matches,
                   matchIndex, pos>>

\* lines 185-190: reset_index and return
Return ==
    /\ pc = "loop"
    /\ pos = Len(diaSources)
    /\ pc' = "done"
    /\ UNCHANGED <<firstRun, rowOrder, diaSources, config, tractPatchId,
                   skymapBits, diaObjectCat, diaObjectCoords, healPixIndices,
                   idCat, usedMatchIndicies, firstVisit, dists, matches,
                   matchIndex, pos>>

Next ==
    \/ FirstVisitSource
    \/ FindMatches
    \/ NoCandidate
    \/ Attach
    \/ MatchUsed
    \/ OutOfTolerance
    \/ Return

Spec == Init /\ [][Next]_vars

SpecTwoVisits == InitTwoVisits /\ [][Next]_vars

\* a second call of run on the table of a call that has returned, with the
\* same tractPatchId and skymapBits, on the same task: either on the table
\* object the first call has filled in place or on a copy of the table as it
\* was given to the first call
Rerun ==
    /\ pc = "done"
    /\ firstRun = None
    /\ firstRun' = [assocDiaSources |-> diaSources,
                    diaObjects |-> diaObjectCat]
    /\ \E inPlace \in BOOLEAN :
          diaSources' =
              IF inPlace THEN diaSources
              ELSE [i \in DOMAIN diaSources |->
                       [diaSources[i] EXCEPT !.diaObjectId = NoId]]
    /\ diaObjectCat' = <<>>
    /\ diaObjectCoords' = <<>>
    /\ healPixIndices' = <<>>
    /\ idCat' = 0
    /\ usedMatchIndicies' = <<>>
    /\ firstVisit' = TRUE
    /\ dists' = None
    /\ matches' = None
    /\ matchIndex' = 0
    /\ pos' = 0
    /\ pc' = "loop"
    /\ UNCHANGED <<rowOrder, config, tractPatchId, skymapBits>>

NextRerun ==
    \/ Next
    \/ Rerun

SpecRerun == Init /\ [][NextRerun]_vars

\* geom.SpherePoint raises in addNewDiaObject (lines 230-232) or in
\* updateCatalogs (lines 275-277) at a source with a malformed coordinate:
\* run is left at once; the caller keeps the table object run has written to
Raise ==
    /\ pos < Len(diaSources)
    /\ \/ pc = "loop" /\ InFirstVisit(diaSrc.ccdVisitId)
       \/ pc = "match"
    /\ ~ValidCoord(diaSrc)
    /\ pc' = "raised"
    /\ UNCHANGED <<firstRun, rowOrder, diaSources, config, tractPatchId,
                   skymapBits, diaObjectCat, diaObjectCoords, healPixIndices,
                   idCat, usedMatchIndicies, firstVisit, dists, matches,
                   matchIndex, pos>>

\* every table of at most MaxSources rows, rows with a malformed
\* declination among them
InitMalformed ==
    \E n \in 0..MaxSources :
        \E v \in CcdVisitIds(n), ids \in DiaSourceIds(n),
           r \in [1..n -> SrcRas], d \in [1..n -> MalformedDecls],
           cfg \in [tolerance : Tolerances, nside : Nsides] :
            Start(SourceTable(n, v, ids, r, d), cfg)

NextMalformed ==
    \/ Next
    \/ Raise

SpecMalformed == InitMalformed /\ [][NextMalformed]_vars

\* every table of at most MaxSources rows, the task configured with one of
\* the DegenerateTolerances (SimpleAssociationConfig has no validate method
\* and run does not look at the values before the loop)
InitDegenerate ==
    \E n \in 0..MaxSources :
        \E v \in CcdVisitIds(n), ids \in DiaSourceIds(n),
           r \in [1..n -> SrcRas], d \in [1..n -> Decls],
           cfg \in [tolerance : DegenerateTolerances, nside : Nsides] :
            Start(SourceTable(n, v, ids, r, d), cfg)

SpecDegenerate == InitDegenerate /\ [][Next]_vars

\* a second call of run with the same arguments on a table of the same rows
\* in another row order: two rows of the first table exchanged
RunReordered ==
    /\ pc = "done"
    /\ firstRun = None
    /\ firstRun' = [assocDiaSources |-> diaSources,
                    diaObjects |-> diaObjectCat]
    /\ \E a, b \in DOMAIN diaSources :
          /\ a < b
          /\ diaSources' =
                 [i \in DOMAIN diaSources |->
                     [diaSources[IF i = a THEN b ELSE IF i = b THEN a ELSE i]
                         EXCEPT !.diaObjectId = NoId]]
    /\ rowOrder' = Order'
    /\ diaObjectCat' = <<>>
    /\ diaObjectCoords' = <<>>
    /\ healPixIndices' = <<>>
    /\ idCat' = 0
    /\ usedMatchIndicies' = <<>>
    /\ firstVisit' = TRUE
    /\ dists' = None
    /\ matches' = None
    /\ matchIndex' = 0
    /\ pos' = 0
    /\ pc' = "loop"
    /\ UNCHANGED <<config, tractPatchId, skymapBits>>

NextReordered ==
    \/ Next
    \/ RunReordered

SpecReordered == InitTwoVisits /\ [][NextReordered]_vars

\* the tables of InitTwoVisits, in a call for one of the CellPairs
InitTwoCells ==
    \E first \in 1..MaxSources :
        \E r \in [1..(MaxSources + 1) -> SrcRas],
           d \in [1..(MaxSources + 1) -> Decls],
           cfg \in [tolerance : Tolerances, nside : Nsides],
           cell \in CellPairs :
            StartAt(SourceTable(MaxSources + 1,
                                [i \in 1..(MaxSources + 1) |->
                                    IF i <= first THEN 1 ELSE 2],
                                [i \in 1..(MaxSources + 1) |-> i], r, d),
                    cfg, cell[1], cell[2])

\* a second call of run, on a copy of the table as it was given to the
\* first call, with another (tractPatchId, skymapBits) pair
RunOtherCell ==
    /\ pc = "done"
    /\ firstRun = None
    /\ firstRun' = [assocDiaSources |-> diaSources,
                    diaObjects |-> diaObjectCat]
    /\ \E cell \in CellPairs :
          /\ cell # <<tractPatchId, skymapBits>>
          /\ tractPatchId' = cell[1]
          /\ skymapBits' = cell[2]
    /\ diaSources' = [i \in DOMAIN diaSources |->
                         [diaSources[i] EXCEPT !.diaObjectId = NoId]]
    /\ diaObjectCat' = <<>>
    /\ diaObjectCoords' = <<>>
    /\ healPixIndices' = <<>>
    /\ idCat' = 0
    /\ usedMatchIndicies' = <<>>
    /\ firstVisit' = TRUE
    /\ dists' = None
    /\ matches' = None
    /\ matchIndex' = 0
    /\ pos' = 0
    /\ pc' = "loop"
    /\ UNCHANGED <<rowOrder, config>>

NextTwoCells ==
    \/ Next
    \/ RunOtherCell

SpecTwoCells == InitTwoCells /\ [][NextTwoCells]_vars

\* ------------------------------------------------------------------------
\* Properties
\* ------------------------------------------------------------------------
\* rows of the source table that carry the diaObjectId objId
RowsOfObject(objId) ==
    {i \in DOMAIN diaSources : diaSources[i].diaObjectId = objId}

RECURSIVE SumNDiaSources(_)
SumNDiaSources(cat) ==
    IF cat = <<>> THEN 0
    ELSE Head(cat).nDiaSources + SumNDiaSources(Tail(cat))

\* the SpherePoints of a set of rows, in row order
RECURSIVE RowCoords(_)
RowCoords(rows) ==
    IF rows = {} THEN <<>>
    ELSE LET i == Min(rows)
         IN  <<SpherePoint(diaSources[i].ra, diaSources[i].decl)>>
                 \o RowCoords(rows \ {i})

\* great-circle separation in arcsec of two coordinates on the equator
SeparationArcsec(ra1, ra2) == 3600 * Abs(ra1 - ra2)

\* C1: when run has returned, no two sources of one ccdVisit carry the same
\* diaObjectId (the founding source of an object counted)
C1_OnePerVisit ==
    pc = "done" =>
        \A i, j \in DOMAIN diaSources :
            (i # j /\ diaSources[i].ccdVisitId = diaSources[j].ccdVisitId)
                => diaSources[i].diaObjectId # diaSources[j].diaObjectId

\* C2: the nDiaSources of all DiaObjects add up to the number of sources
\* processed so far, and to the number of input sources at the return
C2_Conservation ==
    /\ SumNDiaSources(diaObjectCat) = pos
    /\ pc = "done" => SumNDiaSources(diaObjectCat) = Len(diaSources)

C2_Witness ==
    /\ pc = "done"
    /\ Len(diaSources) = MaxSources
    /\ \E i \in DOMAIN diaObjectCat : diaObjectCat[i].nDiaSources > 1
    /\ Len(diaObjectCat) > 1

\* C3: when run has returned, every source row has a diaObjectId, and it is
\* the diaObjectId of a row of the returned DiaObject table
C3_Exclusivity ==
    pc = "done" =>
        \A i \in DOMAIN diaSources :
            /\ diaSources[i].diaObjectId # NoId
            /\ \E k \in DOMAIN diaObjectCat :
                   diaObjectCat[k].diaObjectId = diaSources[i].diaObjectId

C3_Witness ==
    /\ pc = "done"
    /\ Len(diaSources) = MaxSources
    /\ Len(diaObjectCat) = 2

\* C4: in every state the nDiaSources of a DiaObject is the number of source
\* rows that carry its diaObjectId and the length of its coordinate list
C4_MemberCount ==
    /\ Len(diaObjectCoords) = Len(diaObjectCat)
    /\ \A k \in DOMAIN diaObjectCat :
           /\ diaObjectCat[k].nDiaSources =
                  Cardinality(RowsOfObject(diaObjectCat[k].diaObjectId))
           /\ diaObjectCat[k].nDiaSources = Len(diaObjectCoords[k])

C4_Witness ==
    /\ pc = "done"
    /\ \E k \in DOMAIN diaObjectCat : diaObjectCat[k].nDiaSources = 2
    /\ \E k \in DOMAIN diaObjectCat : diaObjectCat[k].nDiaSources = 1

\* C5: after every create and attach the coordinate of each DiaObject is the
\* spherical average of the coordinates of the sources that carry its
\* diaObjectId; with one source it is the coordinate of that source
C5_MeanCorrect ==
    \A k \in DOMAIN diaObjectCat :
        LET rows == RowsOfObject(diaObjectCat[k].diaObjectId)
            ave == averageSpherePoint(RowCoords(rows))
        IN  /\ rows # {}
            /\ diaObjectCat[k].ra = ave.ra
            /\ diaObjectCat[k].decl = ave.decl
            /\ Cardinality(rows) = 1 =>
                   \A i \in rows :
                       /\ diaObjectCat[k].ra = diaSources[i].ra
                       /\ diaObjectCat[k].decl = diaSources[i].decl

\* an object of at least two sources at different places
C5_Witness ==
    /\ pc = "loop"
    /\ \E k \in DOMAIN diaObjectCat :
           /\ diaObjectCat[k].nDiaSources >= 2
           /\ \E i, j \in RowsOfObject(diaObjectCat[k].diaObjectId) :
                  diaSources[i].ra # diaSources[j].ra

\* the step attaches the current source to the DiaObject at index k
AttachedTo(k) ==
    /\ pos' = pos + 1
    /\ Len(diaObjectCat') = Len(diaObjectCat)
    /\ diaObjectCat'[k].nDiaSources = diaObjectCat[k].nDiaSources + 1
    /\ diaSources'[rowOrder[pos + 1]].diaObjectId = diaObjectCat[k].diaObjectId

\* the step creates one new DiaObject for the current source and leaves the
\* DiaObjects there were as they are
CreatedNew ==
    /\ pos' = pos + 1
    /\ Len(diaObjectCat') = Len(diaObjectCat) + 1
    /\ \A k \in DOMAIN diaObjectCat : diaObjectCat'[k] = diaObjectCat[k]
    /\ diaObjectCat'[Len(diaObjectCat')].nDiaSources = 1
    /\ diaSources'[rowOrder[pos + 1]].diaObjectId =
           diaObjectCat'[Len(diaObjectCat')].diaObjectId
    /\ \A k \in DOMAIN diaObjectCat :
           diaObjectCat[k].diaObjectId #
               diaObjectCat'[Len(diaObjectCat')].diaObjectId

\* great-circle separations in arcsec of the current source and the
\* candidates of findMatches (defined where dists # None)
Separations ==
    [k \in DOMAIN matches |->
        SeparationArcsec(diaSrc.ra, diaObjectCat[matches[k]].ra)]

\* the indices of the nearest candidates (several when equally near)
NearestCandidates ==
    {matches[k] : k \in {j \in DOMAIN matches :
                            Separations[j] = npMin(Separations)}}

\* the DiaObject at index k has been attached to in the current ccdVisit
Claimed(k) == \E u \in DOMAIN usedMatchIndicies : usedMatchIndicies[u] = k

\* C6: every step that attaches a source to a DiaObject finds the source at
\* a great-circle separation strictly below the tolerance from the
\* coordinate the DiaObject has before the step
C6_DistanceBound ==
    [][\A k \in DOMAIN diaObjectCat :
          AttachedTo(k) =>
              SeparationArcsec(diaSrc.ra, diaObjectCat[k].ra)
                  < config.tolerance]_vars

\* the source after findMatches whose nearest candidate is within the
\* tolerance and attached to in this ccdVisit creates a new DiaObject
C7_Step ==
    (/\ pc = "match"
     /\ dists # None
     /\ npMin(Separations) < config.tolerance
     /\ \A n \in NearestCandidates : Claimed(n)) => CreatedNew

\* one source in the first ccdVisit and the first two sources of the second
\* ccdVisit both within the tolerance of it: the first of the two is
\* attached to its DiaObject, the second founds the second DiaObject
C7_TwoOnOne ==
    (/\ pc = "done"
     /\ Len(diaSources) >= 3
     /\ diaSources[Order[1]].ccdVisitId # diaSources[Order[2]].ccdVisitId
     /\ diaSources[Order[2]].ccdVisitId = diaSources[Order[3]].ccdVisitId
     /\ SeparationArcsec(diaSources[Order[2]].ra, diaSources[Order[1]].ra)
            < config.tolerance
     /\ SeparationArcsec(diaSources[Order[3]].ra, diaSources[Order[1]].ra)
            < config.tolerance)
    => /\ diaSources[Order[2]].diaObjectId = diaSources[Order[1]].diaObjectId
       /\ diaSources[Order[1]].diaObjectId = diaObjectCat[1].diaObjectId
       /\ diaSources[Order[3]].diaObjectId = diaObjectCat[2].diaObjectId
       /\ diaObjectCat[2].diaObjectId # diaObjectCat[1].diaObjectId
       /\ diaObjectCoords[2][1] =
              SpherePoint(diaSources[Order[3]].ra, diaSources[Order[3]].decl)

\* C7: in a ccdVisit after the first a source whose nearest candidate is
\* within the tolerance but attached to in this ccdVisit creates a new
\* DiaObject, also when another candidate within the tolerance is free; of
\* two sources of a ccdVisit within the tolerance of the one DiaObject there
\* is, the first in row order is attached and the second creates a DiaObject
C7_NoFallback == [](C7_TwoOnOne) /\ [][C7_Step]_vars

\* rows 1, 2 in the first ccdVisit at different places, rows 3, 4 in the
\* second at the place of row 1 and within the tolerance of row 2: row 3 is
\* attached to the DiaObject of row 1, row 4 founds a DiaObject although the
\* DiaObject of row 2 is free
C7_Witness ==
    /\ pc = "done"
    /\ Len(diaSources) = 4
    /\ diaSources[2].ccdVisitId = 1
    /\ diaSources[3].ccdVisitId = 2
    /\ diaSources[1].ra # diaSources[2].ra
    /\ diaSources[3].ra = diaSources[1].ra
    /\ diaSources[4].ra = diaSources[1].ra
    /\ SeparationArcsec(diaSources[4].ra, diaSources[2].ra) < config.tolerance
    /\ diaSources[3].diaObjectId = diaSources[1].diaObjectId
    /\ diaSources[4].diaObjectId = diaObjectCat[3].diaObjectId
    /\ diaObjectCat[2].nDiaSources = 1

\* C8: after findMatches a source is attached if and only if there are
\* candidates, the least great-circle separation is strictly below the
\* tolerance and the nearest candidate is not attached to in this ccdVisit;
\* it is attached to the nearest candidate; otherwise it creates one new
\* DiaObject (of equally near candidates any one may be taken as the nearest)
C8_AttachRule ==
    [][pc = "match" =>
          /\ (\E k \in DOMAIN diaObjectCat : AttachedTo(k)) \/ CreatedNew
          /\ \A k \in DOMAIN diaObjectCat :
                 AttachedTo(k) =>
                     /\ dists # None
                     /\ npMin(Separations) < config.tolerance
                     /\ k \in NearestCandidates
                     /\ ~Claimed(k)
          /\ (/\ dists # None
              /\ npMin(Separations) < config.tolerance
              /\ \A n \in NearestCandidates : ~Claimed(n))
             => \E k \in NearestCandidates : AttachedTo(k)]_vars

\* C9: a source at a great-circle separation from its nearest candidate
\* equal to the tolerance is not attached, it creates a new DiaObject
C9_StrictComparison ==
    [][(/\ pc = "match"
        /\ dists # None
        /\ npMin(Separations) = config.tolerance) => CreatedNew]_vars

\* C10: a second call of run on the same table with the same tractPatchId,
\* skymapBits and config returns the diaObjectIds, nDiaSources and
\* coordinates of the first call and the same diaObjectId for every source
C10_Determinism ==
    (pc = "done" /\ firstRun # None) =>
        /\ Len(diaObjectCat) = Len(firstRun.diaObjects)
        /\ \A k \in DOMAIN diaObjectCat :
               /\ diaObjectCat[k].diaObjectId =
                      firstRun.diaObjects[k].diaObjectId
               /\ diaObjectCat[k].nDiaSources =
                      firstRun.diaObjects[k].nDiaSources
               /\ diaObjectCat[k].ra = firstRun.diaObjects[k].ra
               /\ diaObjectCat[k].decl = firstRun.diaObjects[k].decl
        /\ \A i \in DOMAIN diaSources :
               diaSources[i].diaObjectId =
                   firstRun.assocDiaSources[i].diaObjectId

\* a second call has returned a table of several DiaObjects, one of them
\* with several sources
C10_Witness ==
    /\ pc = "done"
    /\ firstRun # None
    /\ Len(diaObjectCat) >= 2
    /\ \E k \in DOMAIN diaObjectCat : diaObjectCat[k].nDiaSources >= 2

\* the diaObjectIds of a DiaObject table
IdsOf(cat) == {cat[k].diaObjectId : k \in DOMAIN cat}

\* C11: the diaObjectIds of two calls of run with different
\* (tractPatchId, skymapBits) pairs are disjoint
C11_CrossRunIds ==
    firstRun # None =>
        IdsOf(diaObjectCat) \cap IdsOf(firstRun.diaObjects) = {}

\* C12: with a tolerance or an nside that is not positive the call fails at
\* entry: no source is processed and no DiaObject is created
C12_ConfigValidation ==
    (config.tolerance <= 0 \/ config.nside <= 0) =>
        /\ pos = 0
        /\ diaObjectCat = <<>>
        /\ pc # "done"

\* the table has no row, one row, or rows that are all at one place
BoundaryInput ==
    \/ Len(diaSources) <= 1
    \/ \A i, j \in DOMAIN diaSources :
           /\ diaSources[i].ra = diaSources[j].ra
           /\ diaSources[i].decl = diaSources[j].decl

\* the statement run is at does not raise: the loop is within the table,
\* np.min is handed at least one distance per candidate, and the coordinate
\* the iteration hands to geom.SpherePoint is a valid one
RunsOn ==
    /\ pc \in {"loop", "match"}
    /\ pos <= Len(diaSources)
    /\ pc = "match" =>
           /\ pos < Len(diaSources)
           /\ ValidCoord(diaSrc)
           /\ dists # None =>
                  /\ Len(dists) >= 1
                  /\ Len(matches) = Len(dists)
                  /\ \A k \in DOMAIN matches :
                         matches[k] \in DOMAIN diaObjectCat
    /\ (pc = "loop" /\ pos < Len(diaSources)
           /\ InFirstVisit(diaSrc.ccdVisitId)) => ValidCoord(diaSrc)

\* C13: on a table without rows, with one row or with all rows at one place
\* run goes on without raising and returns once the rows are through; the
\* returned tables are empty for the table without rows, and otherwise
\* every source has the diaObjectId of a returned DiaObject and the
\* nDiaSources add up to the number of sources
C13_BoundaryInputs ==
    BoundaryInput =>
        /\ pc # "done" => RunsOn
        /\ (pc = "loop" /\ pos = Len(diaSources)) => ENABLED Return
        /\ pc = "done" =>
               /\ Len(diaSources) = 0 => diaObjectCat = <<>>
               /\ Len(diaSources) > 0 => diaObjectCat # <<>>
               /\ \A i \in DOMAIN diaSources :
                      diaSources[i].diaObjectId \in IdsOf(diaObjectCat)
               /\ SumNDiaSources(diaObjectCat) = Len(diaSources)

\* MaxSources rows at one place in several ccdVisits: a returned DiaObject
\* with several sources
C13_Witness ==
    /\ pc = "done"
    /\ Len(diaSources) = MaxSources
    /\ BoundaryInput
    /\ \E k \in DOMAIN diaObjectCat : diaObjectCat[k].nDiaSources > 1

\* the number of rows of the lowest ccdVisitId (0 for the empty table)
FirstExposureSize ==
    IF Len(diaSources) = 0 THEN 0
    ELSE LET lowest == Min({diaSources[i].ccdVisitId :
                               i \in DOMAIN diaSources})
         IN  Cardinality({i \in DOMAIN diaSources :
                             diaSources[i].ccdVisitId = lowest})

\* up to the end of the first exposure there is one DiaObject of one source
\* per processed source and findMatches has not been called
C14_AfterFirst ==
    pos <= FirstExposureSize =>
        /\ Len(diaObjectCat) = pos
        /\ \A k \in DOMAIN diaObjectCat : diaObjectCat[k].nDiaSources = 1
        /\ pc = "match" => pos = FirstExposureSize

\* a source of the first exposure creates a DiaObject in one step, without
\* findMatches; for every later source findMatches is called
C14_Step ==
    (pc = "loop" /\ pos < Len(diaSources)) =>
        IF pos < FirstExposureSize
        THEN CreatedNew /\ pc' = "loop"
        ELSE pc' = "match" /\ pos' = pos

\* C14: every source of the first exposure (lowest ccdVisitId) founds its
\* own DiaObject without matching, however near the sources are to each
\* other; after the first exposure there are as many DiaObjects as it has
\* sources, each with nDiaSources 1; only the first exposure is not matched
C14_FirstExposure == [](C14_AfterFirst) /\ [][C14_Step]_vars

\* the first exposure has ended with two of its sources at one place and
\* another exposure is to come
C14_Witness ==
    /\ pc = "loop"
    /\ pos = FirstExposureSize
    /\ pos < Len(diaSources)
    /\ \E i, j \in DOMAIN diaObjectCat :
           i # j /\ diaObjectCat[i].ra = diaObjectCat[j].ra

\* the input fields of a source row
InputFields(row) == <<row.ccdVisitId, row.diaSourceId, row.ra, row.decl>>

C16_NoPartialState ==
    pc = "raised" =>
        \A i \in DOMAIN diaSources : diaSources[i].diaObjectId = NoId

\* C17: in every state diaObjectCat, diaObjectCoords and healPixIndices have
\* the same length and the cell id of every DiaObject is toIndex of its
\* current coordinate
C17_IndexConsistency ==
    /\ Len(diaObjectCoords) = Len(diaObjectCat)
    /\ Len(healPixIndices) = Len(diaObjectCat)
    /\ \A i \in DOMAIN diaObjectCat :
           healPixIndices[i] =
               toIndex(config.nside, diaObjectCat[i].ra, diaObjectCat[i].decl)

\* a DiaObject whose cell is not the cell of the source that founded it
C17_Witness ==
    /\ pc = "loop"
    /\ \E i \in DOMAIN diaObjectCat :
           healPixIndices[i] #
               toIndex(config.nside, diaObjectCoords[i][1].ra,
                       diaObjectCoords[i][1].decl)

\* great-circle separations in arcsec of the current source and all the
\* DiaObjects
AllSeparations ==
    [k \in DOMAIN diaObjectCat |->
        SeparationArcsec(diaSrc.ra, diaObjectCat[k].ra)]

\* the indices of the DiaObjects nearest to the current source
NearestObjects ==
    {k \in DOMAIN diaObjectCat : AllSeparations[k] = npMin(AllSeparations)}

\* after findMatches every DiaObject within the tolerance of the source is
\* among the candidates
C18_Candidates ==
    pc = "match" =>
        \A k \in DOMAIN diaObjectCat :
            AllSeparations[k] < config.tolerance =>
                /\ dists # None
                /\ \E m \in DOMAIN matches : matches[m] = k

\* a source whose nearest DiaObject is within the tolerance and not
\* attached to in this ccdVisit is attached, no DiaObject is created
C18_Step ==
    (/\ pc = "match"
     /\ diaObjectCat # <<>>
     /\ npMin(AllSeparations) < config.tolerance
     /\ \A k \in NearestObjects : ~Claimed(k))
    => /\ \E k \in NearestObjects : AttachedTo(k)
       /\ Len(diaObjectCat') = Len(diaObjectCat)

\* C18: with query_disc returning every cell that meets the disc of radius
\* 2 x tolerance around the source, every DiaObject within the tolerance of
\* the source is a candidate of findMatches, and a source whose nearest
\* DiaObject of all is within the tolerance and free gets no new DiaObject
C18_CoarseFilter == [](C18_Candidates) /\ [][C18_Step]_vars

\* findMatches has returned for a source with a DiaObject within the
\* tolerance in another cell than the cell of the source
C18_Witness ==
    /\ pc = "match"
    /\ \E k \in DOMAIN diaObjectCat :
           /\ AllSeparations[k] < config.tolerance
           /\ healPixIndices[k] #
                  toIndex(config.nside, diaSrc.ra, diaSrc.decl)
           /\ \E m \in DOMAIN matches : matches[m] = k

\* row j comes before row i in the order of ascending ccdVisitId and, in
\* one ccdVisit, of the rows of the table
Before(j, i) ==
    \/ diaSources[j].ccdVisitId < diaSources[i].ccdVisitId
    \/ /\ diaSources[j].ccdVisitId = diaSources[i].ccdVisitId
       /\ j < i

\* the rows run has processed: those with a diaObjectId
Processed == {i \in DOMAIN diaSources : diaSources[i].diaObjectId # NoId}

IdOfKey(table, ccdVisit, diaSourceId) ==
    LET i == CHOOSE r \in DOMAIN table :
                 /\ table[r].ccdVisitId = ccdVisit
                 /\ table[r].diaSourceId = diaSourceId
    IN  table[i].diaObjectId

\* C20: two tables of the same rows in different row orders are partitioned
\* into DiaObjects in the same way: two sources share a DiaObject after the
\* one call if and only if they share one after the other
C20_SamePartition ==
    (pc = "done" /\ firstRun # None) =>
        \A i, j \in DOMAIN diaSources :
            (diaSources[i].diaObjectId = diaSources[j].diaObjectId)
            <=> (IdOfKey(firstRun.assocDiaSources, diaSources[i].ccdVisitId,
                         diaSources[i].diaSourceId)
                 = IdOfKey(firstRun.assocDiaSources,
                           diaSources[j].ccdVisitId,
                           diaSources[j].diaSourceId))

\* the members of usedMatchIndicies
UsedSet == {usedMatchIndicies[u] : u \in DOMAIN usedMatchIndicies}

\* the run is at the first source of a ccdVisit after the first one
AtNewExposure ==
    /\ pc = "loop"
    /\ 0 < pos
    /\ pos < Len(diaSources)
    /\ NewVisit(diaSrc.ccdVisitId)

\* while a source is matched every member of usedMatchIndicies is a
\* DiaObject that a source of the ccdVisit of this source is attached to
C21_ClaimedInExposure ==
    pc = "match" =>
        \A k \in UsedSet :
            \E i \in Processed :
                /\ diaSources[i].ccdVisitId = diaSrc.ccdVisitId
                /\ diaSources[i].diaObjectId = diaObjectCat[k].diaObjectId

\* the step from the first source of a ccdVisit after the first leaves
\* usedMatchIndicies empty; a DiaObject enters usedMatchIndicies only in the
\* step that attaches the source to it; a DiaObject leaves it only in the
\* step from the first source of a ccdVisit
C21_Step ==
    LET usedAfter == {usedMatchIndicies'[u] :
                         u \in DOMAIN usedMatchIndicies'}
    IN  /\ AtNewExposure => usedAfter = {}
        /\ \A k \in usedAfter \ UsedSet : AttachedTo(k)
        /\ (UsedSet \ usedAfter # {}) => AtNewExposure

\* C21: usedMatchIndicies is empty when the first source of a ccdVisit after
\* the first is matched, so that what was attached to in earlier ccdVisits
\* does not count as used; a DiaObject is put in it only by the step that
\* attaches a source to it and stays in it to the end of the ccdVisit
C21_ClaimScope == [](C21_ClaimedInExposure) /\ [][C21_Step]_vars

\* MaxSources sources of as many ccdVisits attached to one DiaObject: the
\* DiaObject was attached to in consecutive ccdVisits
C21_Witness ==
    /\ pc = "done"
    /\ Len(diaSources) = MaxSources
    /\ \A i, j \in DOMAIN diaSources :
           i # j => diaSources[i].ccdVisitId # diaSources[j].ccdVisitId
    /\ Len(diaObjectCat) = 1
    /\ diaObjectCat[1].nDiaSources = MaxSources
    /\ usedMatchIndicies = <<1>>

\* C22: no step of run shortens the list of DiaObjects; every DiaObject
\* there is stays at its index with its diaObjectId, and its nDiaSources
\* does not go down
C22_ObjectLifecycle ==
    [][/\ Len(diaObjectCat') >= Len(diaObjectCat)
       /\ Len(diaObjectCoords') >= Len(diaObjectCoords)
       /\ Len(healPixIndices') >= Len(healPixIndices)
       /\ \A k \in DOMAIN diaObjectCat :
              /\ diaObjectCat'[k].diaObjectId = diaObjectCat[k].diaObjectId
              /\ diaObjectCat'[k].nDiaSources >= diaObjectCat[k].nDiaSources
              /\ Len(diaObjectCoords'[k]) >= Len(diaObjectCoords[k])]_vars

\* run has returned several DiaObjects, the first one with a source that
\* was attached after a later DiaObject was created
C22_Witness ==
    /\ pc = "done"
    /\ Len(diaObjectCat) >= 2
    /\ diaObjectCat[1].nDiaSources >= 2
    /\ \E i \in RowsOfObject(diaObjectCat[1].diaObjectId) :
           \E j \in RowsOfObject(diaObjectCat[2].diaObjectId) :
               Before(j, i)

\* the rows the loops of run have gone through so far
Visited == {rowOrder[p] : p \in 1..pos}

\* the loops of run go through every row once, and the rows they have gone
\* through are those with a diaObjectId; run returns when they are through
C23_EachOnce ==
    /\ Len(rowOrder) = Len(diaSources)
    /\ {rowOrder[p] : p \in DOMAIN rowOrder} = DOMAIN diaSources
    /\ pos <= Len(diaSources)
    /\ Processed = Visited
    /\ Cardinality(Visited) = pos
    /\ pc = "done" => pos = Len(diaSources)

\* a step goes on by at most one source; the step that does writes the
\* diaObjectId of that source, which had none, and no step changes a
\* diaObjectId that is written or writes one without going on
C23_Step ==
    /\ pos' \in {pos, pos + 1}
    /\ pos' = pos + 1 =>
           /\ diaSrc.diaObjectId = NoId
           /\ diaSources'[rowOrder[pos + 1]].diaObjectId # NoId
    /\ pos' = pos => diaSources' = diaSources
    /\ \A i \in DOMAIN diaSources :
           diaSources[i].diaObjectId # NoId =>
               diaSources'[i].diaObjectId = diaSources[i].diaObjectId

\* C23: every source is processed exactly once, its diaObjectId is written
\* by the step that processes it and no later step changes it
C23_NoReallocation == [](C23_EachOnce) /\ [][C23_Step]_vars

\* run has returned MaxSources rows, two of them with the same DiaObject
\* and two with different ones
C23_Witness ==
    /\ pc = "done"
    /\ pos = MaxSources
    /\ \E i, j \in DOMAIN diaSources :
           i # j /\ diaSources[i].diaObjectId = diaSources[j].diaObjectId
    /\ \E i, j \in DOMAIN diaSources :
           diaSources[i].diaObjectId # diaSources[j].diaObjectId

\* the columns of a DiaObject that run only initialises
AuxColumns ==
    {"pmParallaxNdata", "nearbyObj1", "nearbyObj2", "nearbyObj3", "flags",
     "uPSFluxNdata", "gPSFluxNdata", "rPSFluxNdata", "iPSFluxNdata",
     "zPSFluxNdata", "yPSFluxNdata"}

\* C24: in every state, from the creation of a DiaObject through every
\* attach to the returned table, every DiaObject has the columns
\* pmParallaxNdata, nearbyObj1..3, flags and the PSFluxNdata of the six
\* bands, all of them 0
C24_AuxColumns ==
    \A k \in DOMAIN diaObjectCat :
        /\ AuxColumns \subseteq DOMAIN diaObjectCat[k]
        /\ \A c \in AuxColumns : diaObjectCat[k][c] = 0

\* run has returned a DiaObject that sources were attached to and whose
\* coordinate is no longer that of its first source
C24_Witness ==
    /\ pc = "done"
    /\ \E k \in DOMAIN diaObjectCat :
           /\ diaObjectCat[k].nDiaSources >= 2
           /\ diaObjectCat[k].ra # diaObjectCoords[k][1].ra
           /\ diaObjectCat[k].flags = 0

\* the DiaObjects are as many as the ids issued, the k-th of them has the
\* k-th id of the factory, and the ids ascend strictly along the list
C25_IdsAscend ==
    /\ Len(diaObjectCat) = idCat
    /\ \A k \in DOMAIN diaObjectCat : diaObjectCat[k].diaObjectId = NewId(k)
    /\ \A j, k \in DOMAIN diaObjectCat :
           j < k => diaObjectCat[j].diaObjectId < diaObjectCat[k].diaObjectId

\* a step that creates a DiaObject puts it behind the DiaObjects there are,
\* with an id above all of theirs
C25_Step ==
    Len(diaObjectCat') # Len(diaObjectCat) =>
        /\ Len(diaObjectCat') = Len(diaObjectCat) + 1
        /\ \A k \in DOMAIN diaObjectCat :
               /\ diaObjectCat'[k].diaObjectId = diaObjectCat[k].diaObjectId
               /\ diaObjectCat[k].diaObjectId
                      < diaObjectCat'[Len(diaObjectCat')].diaObjectId

\* C25: no two DiaObjects of a run have the same diaObjectId; the ids come
\* from one counter, so they ascend strictly in the order of creation, and
\* the list of DiaObjects is in the order of creation
C25_UniqueIds == [](C25_IdsAscend) /\ [][C25_Step]_vars

\* run has returned MaxSources DiaObjects of one source each
C25_Witness ==
    /\ pc = "done"
    /\ Len(diaObjectCat) = MaxSources
    /\ Cardinality(IdsOf(diaObjectCat)) = MaxSources

\* the number of steps run has before it: two for every source to come
\* (findMatches and the branch taken on its result) and the return
StepsLeft ==
    IF pc = "done" THEN 0
    ELSE 2 * (Len(diaSources) - pos) + (IF pc = "loop" THEN 1 ELSE 0)

\* before the return no raising condition holds, and the return can be
\* taken once the sources are through
C26_GoesOn ==
    /\ StepsLeft >= 0
    /\ pc # "done" => RunsOn
    /\ (pc = "loop" /\ pos = Len(diaSources)) => ENABLED Return
    /\ pc = "done" => pos = Len(diaSources)

\* every step brings the return nearer; the step that processes a source
\* is one create or one attach, and no other step creates or attaches
C26_Step ==
    /\ StepsLeft' < StepsLeft
    /\ pos' = pos + 1 =>
           (\E k \in DOMAIN diaObjectCat : AttachedTo(k)) \/ CreatedNew
    /\ pos' # pos + 1 =>
           /\ pos' = pos
           /\ diaObjectCat' = diaObjectCat
           /\ diaSources' = diaSources

\* C26: on a table of valid coordinates run is never at a statement that
\* raises, every step lowers the number of steps left before the return,
\* and the sources are processed one per step by one create or one attach
\* each: run returns after as many processing steps as there are sources
C26_Termination == [](C26_GoesOn) /\ [][C26_Step]_vars

\* run has returned after MaxSources processing steps, creates and attaches
\* among them
C26_Witness ==
    /\ pc = "done"
    /\ StepsLeft = 0
    /\ pos = MaxSources
    /\ Len(diaObjectCat) \in 2..(MaxSources - 1)

\* the accumulator engine: per DiaObject the sum of the unit vectors of its
\* sources and their number, started by a create, added to by an attach,
\* with the coordinate of the DiaObject that of the direction of the sum
AccCreate(src) ==
    [sum |-> getVector(SpherePoint(src.ra, src.decl)), n |-> 1]
AccAttach(acc, src) ==
    LET v == getVector(SpherePoint(src.ra, src.decl))
    IN  [sum |-> <<acc.sum[1] + v[1], acc.sum[2] + v[2], acc.sum[3] + v[3]>>,
         n |-> acc.n + 1]
AccMean(acc) == FromVector(acc.sum)

\* the accumulator that stands for a coordinate history
AccOf(history) == [sum |-> VectorSum(history), n |-> Len(history)]

\* the coordinates of the first n DiaObjects in the accumulator engine
RECURSIVE AccCatUpTo(_)
AccCatUpTo(n) ==
    IF n = 0 THEN <<>>
    ELSE LET mean == AccMean(AccOf(diaObjectCoords[n]))
         IN  Append(AccCatUpTo(n - 1), [ra |-> mean.ra, decl |-> mean.decl])

\* the cell ids of the first n of the DiaObjects cat
RECURSIVE AccCellsUpTo(_, _)
AccCellsUpTo(cat, n) ==
    IF n = 0 THEN <<>>
    ELSE Append(AccCellsUpTo(cat, n - 1),
                toIndex(config.nside, cat[n].ra, cat[n].decl))

\* the DiaObjects and cell ids the accumulator engine holds
AccCat == AccCatUpTo(Len(diaObjectCoords))
AccCells == AccCellsUpTo(AccCat, Len(diaObjectCoords))

\* the coordinate, the nDiaSources and the cell id of every DiaObject are
\* those the accumulator gives, and findMatches on the DiaObjects of the
\* accumulator engine has the result it has for run
C27_SameState ==
    LET cat == AccCat
        cells == AccCellsUpTo(cat, Len(cat))
    IN  /\ Len(cat) = Len(diaObjectCat)
        /\ \A k \in DOMAIN diaObjectCat :
               /\ diaObjectCat[k].ra = cat[k].ra
               /\ diaObjectCat[k].decl = cat[k].decl
               /\ diaObjectCat[k].nDiaSources = AccOf(diaObjectCoords[k]).n
               /\ healPixIndices[k] = cells[k]
        /\ pc = "match" =>
               LET r == findMatches(diaSrc.ra, diaSrc.decl,
                                    2 * config.tolerance, cells, cat)
               IN  dists = r.dists /\ matches = r.matches

\* a create starts the accumulator of the new DiaObject, an attach adds the
\* source to the accumulator of its DiaObject, and the accumulators of the
\* other DiaObjects stay
C27_Step ==
    /\ \A k \in DOMAIN diaObjectCat :
           IF AttachedTo(k)
           THEN AccOf(diaObjectCoords'[k])
                    = AccAttach(AccOf(diaObjectCoords[k]), diaSrc)
           ELSE AccOf(diaObjectCoords'[k]) = AccOf(diaObjectCoords[k])
    /\ CreatedNew =>
           AccOf(diaObjectCoords'[Len(diaObjectCoords')]) = AccCreate(diaSrc)

Founder(objId) ==
    CHOOSE i \in RowsOfObject(objId) :
        \A j \in RowsOfObject(objId) : j = i \/ Before(i, j)

\* the sources of a ccdVisit that were attached to a DiaObject
AttachedIn(objId, ccdVisit) ==
    {i \in RowsOfObject(objId) \ {Founder(objId)} :
        diaSources[i].ccdVisitId = ccdVisit}

\* of the sources of one ccdVisit at most one is attached to a DiaObject
C28_OneAttach ==
    \A k \in DOMAIN diaObjectCat :
        \A i \in DOMAIN diaSources :
            Cardinality(AttachedIn(diaObjectCat[k].diaObjectId,
                                   diaSources[i].ccdVisitId)) <= 1

\* an attach is to a DiaObject that is not in usedMatchIndicies and puts it
\* there; a create leaves usedMatchIndicies as it is, the new DiaObject is
\* not in it
C28_Step ==
    pc = "match" =>
        /\ \A k \in DOMAIN diaObjectCat :
               AttachedTo(k) =>
                   /\ k \notin UsedSet
                   /\ usedMatchIndicies' = Append(usedMatchIndicies, k)
        /\ CreatedNew =>
               /\ usedMatchIndicies' = usedMatchIndicies
               /\ Len(diaObjectCat') \notin UsedSet

\* C28: updateCatalogs is called at most once per DiaObject and ccdVisit; a
\* DiaObject created in a ccdVisit after the first is not put in
\* usedMatchIndicies, so a later source of the same ccdVisit can still be
\* attached to it
C28_OneAttachPerExposure == [](C28_OneAttach) /\ [][C28_Step]_vars

\* a DiaObject created in a ccdVisit after the first has a second source of
\* that ccdVisit attached to it
C28_Witness ==
    /\ pc = "done"
    /\ \E k \in DOMAIN diaObjectCat :
           LET objId == diaObjectCat[k].diaObjectId
               v == diaSources[Founder(objId)].ccdVisitId
           IN  /\ \E i \in DOMAIN diaSources : diaSources[i].ccdVisitId < v
               /\ AttachedIn(objId, v) # {}

\* the step leaves the DiaObject at index j, its coordinate history and its
\* cell id as they are
ObjectKept(j) ==
    /\ diaObjectCat'[j] = diaObjectCat[j]
    /\ diaObjectCoords'[j] = diaObjectCoords[j]
    /\ healPixIndices'[j] = healPixIndices[j]

\* the step leaves every source but the current one as it is
OtherSourcesKept ==
    \A i \in DOMAIN diaSources \ {rowOrder[pos + 1]} :
        diaSources'[i] = diaSources[i]

\* C29: a step that attaches a source changes, of the DiaObjects, only the
\* ra, decl and nDiaSources, the coordinate history and the cell id of the
\* one attached to, and a step that creates a DiaObject only appends one
\* entry to the lists; both leave every other DiaObject, its history and
\* cell id, and the diaObjectId of every other source as they are
C29_ObjectFrame ==
    [][pos' = pos + 1 =>
          /\ OtherSourcesKept
          /\ \A k \in DOMAIN diaObjectCat :
                 AttachedTo(k) =>
                     /\ Len(diaObjectCoords') = Len(diaObjectCoords)
                     /\ Len(healPixIndices') = Len(healPixIndices)
                     /\ \A j \in DOMAIN diaObjectCat \ {k} : ObjectKept(j)
                     /\ [diaObjectCat'[k] EXCEPT
                            !.ra = diaObjectCat[k].ra,
                            !.decl = diaObjectCat[k].decl,
                            !.nDiaSources = diaObjectCat[k].nDiaSources]
                            = diaObjectCat[k]
          /\ CreatedNew =>
                 /\ Len(diaObjectCoords') = Len(diaObjectCoords) + 1
                 /\ Len(healPixIndices') = Len(healPixIndices) + 1
                 /\ \A j \in DOMAIN diaObjectCat : ObjectKept(j)]_vars

\* run has returned a DiaObject with a source attached when there was
\* already another DiaObject, which is in another cell
C29_Witness ==
    /\ pc = "done"
    /\ \E k, j \in DOMAIN diaObjectCat :
           /\ healPixIndices[j] # healPixIndices[k]
           /\ \E i \in RowsOfObject(diaObjectCat[k].diaObjectId)
                           \ {Founder(diaObjectCat[k].diaObjectId)} :
                  Before(Founder(diaObjectCat[j].diaObjectId), i)

\* the cells findMatches asks query_disc for around the current source
QueriedCells ==
    query_disc(config.nside, diaSrc.ra, diaSrc.decl,
               deg2rad((2 * config.tolerance) \div 3600))

\* the DiaObjects whose cell id is among the queried cells
InQueriedCells ==
    {k \in DOMAIN diaObjectCat : healPixIndices[k] \in QueriedCells}

\* the candidates whose entry in dists is the minimum of dists
MinDistCandidates ==
    {matches[p] : p \in {q \in DOMAIN dists : dists[q] = npMin(dists)}}

\* findMatches returns None exactly when no DiaObject has its cell id among
\* the queried cells, and otherwise these DiaObjects by ascending index with
\* one distance each
C30_Matches ==
    pc = "match" =>
        /\ dists = None <=> InQueriedCells = {}
        /\ dists # None =>
               /\ matches # None
               /\ Len(dists) = Len(matches)
               /\ {matches[p] : p \in DOMAIN matches} = InQueriedCells
               /\ \A p, q \in DOMAIN matches :
                      p < q => matches[p] < matches[q]

\* of the candidates with the least entry of dists, when it is within the
\* tolerance, the one with the lowest index is looked up in
\* usedMatchIndicies: the source is attached to it when it is not there, and
\* creates a DiaObject when it is
C30_Step ==
    (pc = "match" /\ dists # None /\ WithinTolerance(dists)) =>
        LET low == Min(MinDistCandidates)
        IN  /\ matchIndex' = low
            /\ low \notin UsedSet => AttachedTo(low)
            /\ low \in UsedSet => CreatedNew

====
